---- MODULE Spec2Model ----
(***************************************************************************)
(* Model of the pipeline orchestrator of youtube-shorts-automated           *)
(* (src/main.py) together with the five stage adapters it drives           *)
(* (src/scripts/1_download.py .. 5_export.py).                              *)
(*                                                                         *)
(* One run of PipelineRunner.run() is modelled: dependency validation,     *)
(* the stage loop with its skip decision, execute_stage with the input     *)
(* resolution of each stage, the two exception handlers of run(), and the  *)
(* final report.  The filesystem stores the adapters read and write are    *)
(* part of the state.                                                      *)
(***************************************************************************)
EXTENDS Integers, Sequences, FiniteSets, TLC

(***************************************************************************)
(* Bounds of the model.                                                    *)
(***************************************************************************)
\* number of ways the machine differs from a clean install: artifact files
\* left on disk by earlier runs plus dependencies that are missing
MaxEnv == 1
\* number of cuts an analysis file lists
MaxCuts == 1
\* pre-existing videos, transcripts and analyses when the fallback inputs
\* of the stages are looked at
MaxFiles == 3
\* cuts in an answer of the language model
MaxCands == 4
\* largest export cap looked at
MaxExport == 3
\* leading characters of the example identifier that are varied
VaryLen == 2

(***************************************************************************)
(* Program constants.                                                      *)
(***************************************************************************)
STAGES == <<"download", "transcribe", "analyze", "cut", "export">>

StageSet == {STAGES[i] : i \in 1..Len(STAGES)}

\* video identifiers: the video the URL names, and a video of an earlier run
UrlVid == "v1"
Vids == {"v1", "v2"}
\* self.video_id = None
NoId == "unset"
\* "{video_id}".format(video_id=None)
NoneText == "None"
\* the stems an artifact file can have
Stems == Vids \cup {NoneText}

\* the directory of each kind of artifact (config paths / CHECKPOINTS)
CHECKPOINTS ==
  [download |-> "raw", transcribe |-> "transcripts", analyze |-> "analysis",
   cut |-> "output", export |-> "shorts"]

\* external tools, packages and credential looked at by validate_dependencies
Tools == {"yt-dlp", "ffmpeg"}
RequiredPackages == {"pyyaml", "python-dotenv"}
OptionalPackages == {"anthropic", "faster-whisper"}
Credentials == {"ANTHROPIC_API_KEY"}
Deps == Tools \cup RequiredPackages \cup OptionalPackages \cup Credentials

(***************************************************************************)
(* State.                                                                  *)
(***************************************************************************)
VARIABLES
  \* ---- the Runner object (PipelineRunner.__init__)
  video_id,       \* self.video_id: a video identifier or NoId
  resume,         \* self.resume
  skip_stages,    \* self.skip_stages (set of stage names)
  stop_on_error,  \* self.stop_on_error
  stage_times,    \* self.stage_times: the stages that have a duration entry
  results,        \* self.results: dict from result key to value
  \* ---- control of run()
  pc,             \* "start", "loop", "exec", "done"
  idx,            \* position of the for loop over STAGES (1..6)
  exit_code,      \* -1 while running, else the exit status of the process
  report,         \* the per-stage status lines of _print_report, or empty
  \* ---- the environment
  missing,        \* dependencies absent from the machine
  raw,            \* data/raw/*.mp4, oldest modification first
  transcripts,    \* data/transcripts/*_transcript.json, oldest first
  analyses,       \* data/analysis/*_analysis.json, oldest first
  ncuts,          \* number of cuts listed by the analysis file of a video
  cutfiles,       \* videos with at least one data/output/<id>_cut_NN.mp4
  shorts,         \* videos with at least one data/output/shorts/<id>_.._short.mp4
  \* ---- observation of the run
  invoked,        \* the stages execute_stage was called for, in call order
  decisions,      \* stage -> the value _should_skip_stage returned in the loop
  failed,         \* stages whose execute_stage caught an Exception
  extfail,        \* stages where an external tool / API / config read failed
  interrupted,    \* a KeyboardInterrupt was raised
  adapter_args,   \* stage -> the paths execute_stage passed to its adapter
  \* ---- the inputs and the result of the functions checked on their own
  url,            \* the url argument of PipelineRunner.__init__
  cuts_list,      \* analysis_result['cuts'] as the model answered
  min_viral_score,     \* cuts_cfg['min_viral_score']
  max_cuts_to_export,  \* cuts_cfg['max_cuts_to_export']
  final_cuts      \* the cut list analyze_transcript retains

runner == <<video_id, resume, skip_stages, stop_on_error, stage_times, results>>
control == <<pc, idx, exit_code, report>>
fs == <<raw, transcripts, analyses, ncuts, cutfiles, shorts>>
obs == <<invoked, decisions, failed, extfail, interrupted, adapter_args>>
pure == <<url, cuts_list, min_viral_score, max_cuts_to_export, final_cuts>>
vars == <<runner, control, missing, fs, obs, pure>>

(***************************************************************************)
(* Helpers: dicts, paths, files.                                           *)
(***************************************************************************)
EmptyDict == [k \in {} |-> 0]

\* dict.get(key, default)
DictGet(d, k, default) == IF k \in DOMAIN d THEN d[k] ELSE default

\* d[key] = value
DictSet(d, k, v) == [x \in DOMAIN d \cup {k} |-> IF x = k THEN v ELSE d[x]]

Range(s) == {s[i] : i \in 1..Len(s)}

Last(s) == s[Len(s)]

\* the sequence s without the element v
Without(s, v) == SelectSeq(s, LAMBDA x : x /= v)

\* variant: writing a file clears the store it is written to
Touch_clearing(s, v) == <<v>>

\* a file (re)written now becomes the most recently modified of its store
Touch(s, v) == Append(Without(s, v), v)

\* a file created if absent, left alone if present
Create(s, v) == IF v \in Range(s) THEN s ELSE Append(s, v)

NoPath == [dir |-> "nopath", stem |-> NoId]

\* Path('') is the current directory
CwdPath == [dir |-> "cwd", stem |-> ""]

MkPath(d, v) == [dir |-> d, stem |-> v]

\* the empty string ''
EmptyStr == [dir |-> "", stem |-> ""]

\* Path(text): the empty string names the current directory
PathOf(text) == IF text = EmptyStr THEN CwdPath ELSE text

\* the videos that have at least one artifact file in a directory
FilesIn(d) ==
  CASE d = "raw" -> Range(raw)
    [] d = "transcripts" -> Range(transcripts)
    [] d = "analysis" -> Range(analyses)
    [] d = "output" -> cutfiles
    [] d = "shorts" -> shorts
    [] OTHER -> {}

\* Path.exists(): the current directory exists, a file if it is in its store
Exists(p) == p.dir = "cwd" \/ p.stem \in FilesIn(p.dir)

\* open(p, 'r') succeeds: p is an existing regular file
Readable(p) == Exists(p) /\ p.dir /= "cwd"

\* the stores as one value
CurFS ==
  [raw |-> raw, transcripts |-> transcripts, analyses |-> analyses,
   ncuts |-> ncuts, cutfiles |-> cutfiles, shorts |-> shorts]

(***************************************************************************)
(* Skip decision (main.py 120-145).                                        *)
(***************************************************************************)
\* str.format renders None as the text None
FormatId(vid) == IF vid = NoId THEN NoneText ELSE vid

\* glob(CHECKPOINTS[stage].format(video_id=vid)) matches at least one file
GlobMatches(stage, vid) == FormatId(vid) \in FilesIn(CHECKPOINTS[stage])

\* variant: the pattern is globbed without the guard on the identifier
check_stage_completed_unguarded(stage) == GlobMatches(stage, video_id)

\* variant: only the checkpoint of the download stage is looked for
check_stage_completed_raw_only(stage) ==
  IF video_id = NoId THEN FALSE ELSE GlobMatches("download", video_id)

check_stage_completed(stage) ==
  IF video_id = NoId THEN FALSE ELSE GlobMatches(stage, video_id)

\* variant: the --skip-<stage> flags are honoured only in resume mode
should_skip_stage_resume_only(stage) ==
  resume /\ (stage \in skip_stages \/ check_stage_completed(stage))

\* variant: a checkpoint is honoured only while no stage has been executed
should_skip_stage_prefix(stage) ==
  IF stage \in skip_stages THEN TRUE
  ELSE IF resume /\ check_stage_completed(stage) /\ invoked = <<>> THEN TRUE
  ELSE FALSE

should_skip_stage(stage) ==
  IF stage \in skip_stages THEN TRUE
  ELSE IF resume /\ check_stage_completed(stage) THEN TRUE
  ELSE FALSE

(***************************************************************************)
(* Dependency validation (main.py 147-218).                                *)
(***************************************************************************)
\* the imports at the top of the try block raise ImportError
ImportsFail == "pyyaml" \in missing \/ "python-dotenv" \in missing

missing_tools == Tools \cap missing

\* variant: the required flag of a package is not looked at
missing_packages_all == (RequiredPackages \cup OptionalPackages) \cap missing

\* only the packages flagged required are collected
missing_packages == RequiredPackages \cap missing

validate_dependencies ==
  IF ImportsFail THEN FALSE
  ELSE IF missing_tools /= {} \/ missing_packages /= {} THEN FALSE
  ELSE TRUE

(***************************************************************************)
(* Stage adapters.  Each yields the set of outcomes the call can have: it  *)
(* raises or returns a value, and leaves the stores in some state.  ext    *)
(* tells that an external tool, the API or the settings file failed.       *)
(***************************************************************************)
NoValue == [none |-> TRUE]

Raises(ext) == [raised |-> TRUE, ext |-> ext, value |-> NoValue, fs |-> CurFS]

Returns(v, ext, f) == [raised |-> FALSE, ext |-> ext, value |-> v, fs |-> f]

\* load_stage_module (main.py 19-52): the module's own imports must resolve
ModuleLoads(stage) ==
  CASE stage = "transcribe" -> "faster-whisper" \notin missing
    [] stage = "analyze" -> "anthropic" \notin missing
    [] OTHER -> TRUE

\* 1_download.py 30-83: yt-dlp writes <id>.mp4, then the LAST entry of an
\* unsorted glob("*.mp4") is returned: any .mp4 of the store
download_video ==
  {Raises(TRUE)} \cup
  {Returns(MkPath("raw", v), FALSE, [CurFS EXCEPT !.raw = Create(raw, UrlVid)]) :
     v \in Range(Create(raw, UrlVid))}

\* variant: min instead of max over the modification times
find_latest_video_oldest ==
  IF raw = <<>> THEN NoPath ELSE MkPath("raw", Head(raw))

\* 2_transcribe.py 118-129
find_latest_video == IF raw = <<>> THEN NoPath ELSE MkPath("raw", Last(raw))

\* the dict transcribe_video returns (2_transcribe.py 86-93): its keys are
\* video_id, video_path, language, language_probability, duration, segments
transcript_data(video_path) ==
  [video_id |-> video_path.stem, video_path |-> video_path]

\* 2_transcribe.py 31-116
transcribe_video(video_path) ==
  IF ~Exists(video_path) THEN {Raises(FALSE)}
  ELSE {Raises(TRUE),
        Returns(transcript_data(video_path), FALSE,
                [CurFS EXCEPT !.transcripts = Touch(transcripts, video_path.stem)])}

\* 3_analyze.py 261-272
find_latest_transcript ==
  IF transcripts = <<>> THEN NoPath ELSE MkPath("transcripts", Last(transcripts))

\* the dict analyze_transcript returns (3_analyze.py 232-248)
analysis_data(transcript_path, n) ==
  [video_id |-> transcript_path.stem, transcript_path |-> transcript_path,
   cuts |-> n]

\* 3_analyze.py 68-259: the transcript is opened and read, the API is
\* called, and n cuts survive the filter
analyze_transcript(transcript_path) ==
  IF ~Exists(transcript_path) THEN {Raises(FALSE)}
  ELSE IF ~Readable(transcript_path) THEN {Raises(TRUE), Raises(FALSE)}
  ELSE IF "ANTHROPIC_API_KEY" \in missing THEN {Raises(TRUE)}
  ELSE {Raises(TRUE)} \cup
       {Returns(analysis_data(transcript_path, n), FALSE,
                [CurFS EXCEPT !.analyses = Touch(analyses, transcript_path.stem),
                              !.ncuts = [ncuts EXCEPT ![transcript_path.stem] = n]]) :
          n \in 0..MaxCuts}

\* variant: the latest analysis is paired with the latest video of the raw
\* store instead of the video the analysis names
find_latest_analysis_latest_video ==
  IF analyses = <<>> \/ raw = <<>> THEN <<NoPath, NoPath>>
  ELSE <<MkPath("raw", Last(raw)), MkPath("analysis", Last(analyses))>>

\* 4_cut.py 114-144: (video_path, analysis_path), or NoPath when it raises
find_latest_analysis ==
  IF analyses = <<>> THEN <<NoPath, NoPath>>
  ELSE LET latest == Last(analyses)
           video_path == MkPath("raw", latest)
       IN IF ~Exists(video_path) THEN <<NoPath, NoPath>>
          ELSE <<video_path, MkPath("analysis", latest)>>

\* 4_cut.py 31-112: a segment whose ffmpeg call fails is dropped, k of the
\* listed cuts are written
cut_video(video_path, analysis_path) ==
  IF ~Exists(video_path) \/ ~Exists(analysis_path) THEN {Raises(FALSE)}
  ELSE {Raises(TRUE)} \cup
       {Returns([files |-> k], k < ncuts[analysis_path.stem],
                [CurFS EXCEPT !.cutfiles =
                   IF k > 0 THEN cutfiles \cup {video_path.stem} ELSE cutfiles]) :
          k \in 0..ncuts[analysis_path.stem]}

\* 5_export.py 109-147: every cut file of the output store is exported, a
\* file whose export fails is dropped
batch_export ==
  {Raises(TRUE)} \cup
  {Returns([exported |-> S], S /= cutfiles,
           [CurFS EXCEPT !.shorts = shorts \cup S]) : S \in SUBSET cutfiles}

(***************************************************************************)
(* execute_stage (main.py 220-289): input resolution and adapter call.     *)
(***************************************************************************)
\* the key of self.results a stage stores its return value under
ResultKey ==
  [download |-> "video_path", transcribe |-> "transcript",
   analyze |-> "analysis", cut |-> "cuts", export |-> "shorts"]

\* main.py 253: self.results.get('video_path') or module.find_latest_video()
TranscribeInput ==
  IF "video_path" \in DOMAIN results THEN results["video_path"]
  ELSE find_latest_video

\* main.py 258: Path(self.results.get('transcript', {}).get('transcript_path', ''))
HandedTranscript ==
  PathOf(DictGet(DictGet(results, "transcript", EmptyDict),
                 "transcript_path", EmptyStr))

\* main.py 258-260
AnalyzeInput ==
  IF ~Exists(HandedTranscript) THEN find_latest_transcript
  ELSE HandedTranscript

\* main.py 265-269: <<video_path, analysis_path>>
CutInput ==
  IF "analysis" \in DOMAIN results
  THEN <<IF "video_path" \in DOMAIN results THEN results["video_path"]
         ELSE MkPath("raw", FormatId(video_id)),
         MkPath("analysis", FormatId(video_id))>>
  ELSE find_latest_analysis

\* the adapter is not reached: the import or the input resolution raises
NotCalled == <<NoPath>>

\* main.py 245-276: the paths the adapter of a stage is called with
AdapterArgs(stage) ==
  IF ~ModuleLoads(stage) THEN NotCalled
  ELSE CASE stage = "transcribe" ->
              IF TranscribeInput = NoPath THEN NotCalled ELSE <<TranscribeInput>>
         [] stage = "analyze" ->
              IF AnalyzeInput = NoPath THEN NotCalled ELSE <<AnalyzeInput>>
         [] stage = "cut" ->
              IF CutInput[1] = NoPath THEN NotCalled ELSE CutInput
         [] OTHER -> <<>>

\* the call of the adapter is observed
RecordCall(stage) ==
  adapter_args' = IF AdapterArgs(stage) = NotCalled THEN adapter_args
                  ELSE DictSet(adapter_args, stage, AdapterArgs(stage))

\* the outcomes of the try block of execute_stage for a stage
StageOutcomes(stage) ==
  IF ~ModuleLoads(stage) THEN {Raises(FALSE)}
  ELSE CASE stage = "download" -> download_video
         [] stage = "transcribe" ->
              IF TranscribeInput = NoPath THEN {Raises(FALSE)}
              ELSE transcribe_video(TranscribeInput)
         [] stage = "analyze" ->
              IF AnalyzeInput = NoPath THEN {Raises(FALSE)}
              ELSE analyze_transcript(AnalyzeInput)
         [] stage = "cut" ->
              IF CutInput[1] = NoPath THEN {Raises(FALSE)}
              ELSE cut_video(CutInput[1], CutInput[2])
         [] stage = "export" -> batch_export

\* the stores become f
WriteFS(f) ==
  /\ raw' = f.raw
  /\ transcripts' = f.transcripts
  /\ analyses' = f.analyses
  /\ ncuts' = f.ncuts
  /\ cutfiles' = f.cutfiles
  /\ shorts' = f.shorts

\* variant: the handler always swallows the exception
HandlerNeverReraises == FALSE

\* variant: the handler always re-raises
HandlerAlwaysReraises == TRUE

\* main.py 286-289: the handler re-raises exactly when stop_on_error is set
HandlerReraises == stop_on_error

(***************************************************************************)
(* Initial state: the Runner just constructed (main.py 79-103), on a       *)
(* machine with some dependencies missing and some artifacts of earlier    *)
(* runs on disk.                                                           *)
(***************************************************************************)
\* the sequences without repetition over S: a store ordered by mtime
DistinctSeqs(S) ==
  {q \in UNION {[1..n -> S] : n \in 0..Cardinality(S)} :
     \A i, j \in 1..Len(q) : q[i] = q[j] => i = j}

\* main.py 79-103: the Runner as __init__ leaves it, for any flags
RunnerConstructed ==
  /\ video_id \in {NoId, UrlVid}
  /\ resume \in BOOLEAN
  /\ skip_stages \in SUBSET StageSet
  /\ stop_on_error \in BOOLEAN
  /\ stage_times = {}
  /\ results = EmptyDict
  /\ pc = "start"
  /\ idx = 1
  /\ exit_code = -1
  /\ report = EmptyDict
  /\ invoked = <<>>
  /\ decisions = EmptyDict
  /\ failed = {}
  /\ extfail = {}
  /\ interrupted = FALSE
  /\ adapter_args = EmptyDict

\* a run of the pipeline does not look at the inputs of the functions
\* checked on their own
PureUnused ==
  /\ url = <<>>
  /\ cuts_list = <<>>
  /\ min_viral_score = 0
  /\ max_cuts_to_export = 0
  /\ final_cuts = <<>>

Init ==
  /\ missing \in {m \in SUBSET Deps : Cardinality(m) <= MaxEnv}
  /\ raw \in DistinctSeqs(Stems)
  /\ Len(raw) + Cardinality(missing) <= MaxEnv
  /\ transcripts \in DistinctSeqs(Stems)
  /\ Len(raw) + Len(transcripts) + Cardinality(missing) <= MaxEnv
  /\ analyses \in DistinctSeqs(Stems)
  /\ cutfiles \in SUBSET Stems
  /\ shorts \in SUBSET Stems
  /\ Len(raw) + Len(transcripts) + Len(analyses)
       + Cardinality(cutfiles) + Cardinality(shorts)
       + Cardinality(missing) <= MaxEnv
  /\ ncuts \in [Stems -> 0..MaxCuts]
  /\ \A v \in Stems : v \notin Range(analyses) => ncuts[v] = 0
  /\ RunnerConstructed
  /\ PureUnused

(***************************************************************************)
(* Actions of run() (main.py 291-321).                                     *)
(***************************************************************************)
\* main.py 301-304: pre-flight validation, sys.exit(1) when it fails
Validate ==
  /\ pc = "start"
  /\ IF validate_dependencies
     THEN pc' = "loop" /\ exit_code' = exit_code
     ELSE pc' = "done" /\ exit_code' = 1
  /\ UNCHANGED <<runner, idx, report, missing, fs, obs, pure>>

\* variant: a stage skipped by its checkpoint hands the checkpoint over as
\* its result
LoopStepHandsOver ==
  /\ pc = "loop"
  /\ idx <= Len(STAGES)
  /\ LET stage == STAGES[idx]
         skip == should_skip_stage(stage)
     IN /\ decisions' = DictSet(decisions, stage, skip)
        /\ IF skip
           THEN idx' = idx + 1 /\ pc' = pc /\ invoked' = invoked
           ELSE idx' = idx /\ pc' = "exec" /\ invoked' = Append(invoked, stage)
        /\ results' = IF skip /\ stage \notin skip_stages
                      THEN DictSet(results, ResultKey[stage],
                                   MkPath(CHECKPOINTS[stage], FormatId(video_id)))
                      ELSE results
  /\ UNCHANGED <<video_id, resume, skip_stages, stop_on_error, stage_times,
                 exit_code, report, missing, fs,
                 failed, extfail, interrupted, adapter_args, pure>>

\* main.py 307-312: the loop head takes the skip decision of the next stage
\* and either continues or enters execute_stage
LoopStep ==
  /\ pc = "loop"
  /\ idx <= Len(STAGES)
  /\ LET stage == STAGES[idx]
         skip == should_skip_stage(stage)
     IN /\ decisions' = DictSet(decisions, stage, skip)
        /\ IF skip
           THEN idx' = idx + 1 /\ pc' = pc /\ invoked' = invoked
           ELSE idx' = idx /\ pc' = "exec" /\ invoked' = Append(invoked, stage)
  /\ UNCHANGED <<runner, exit_code, report, missing, fs,
                 failed, extfail, interrupted, adapter_args, pure>>

\* variant: the download stage overwrites the identifier whether or not one
\* was extracted from the URL
StageReturnsOverwritesId ==
  /\ pc = "exec"
  /\ LET stage == STAGES[idx] IN
     \E o \in StageOutcomes(stage) :
       /\ ~o.raised
       /\ results' = DictSet(results, ResultKey[stage], o.value)
       /\ video_id' = IF stage = "download" THEN o.value.stem ELSE video_id
       /\ stage_times' = stage_times \cup {stage}
       /\ extfail' = IF o.ext THEN extfail \cup {stage} ELSE extfail
       /\ WriteFS(o.fs)
       /\ RecordCall(stage)
  /\ pc' = "loop"
  /\ idx' = idx + 1
  /\ UNCHANGED <<resume, skip_stages, stop_on_error, exit_code, report,
                 missing, invoked, decisions, failed, interrupted, pure>>

\* main.py 245-281: the adapter returns; result, identifier and duration
\* are recorded and the loop goes on
StageReturns ==
  /\ pc = "exec"
  /\ LET stage == STAGES[idx] IN
     \E o \in StageOutcomes(stage) :
       /\ ~o.raised
       /\ results' = DictSet(results, ResultKey[stage], o.value)
       /\ video_id' = IF stage = "download" /\ video_id = NoId
                      THEN o.value.stem ELSE video_id
       /\ stage_times' = stage_times \cup {stage}
       /\ extfail' = IF o.ext THEN extfail \cup {stage} ELSE extfail
       /\ WriteFS(o.fs)
       /\ RecordCall(stage)
  /\ pc' = "loop"
  /\ idx' = idx + 1
  /\ UNCHANGED <<resume, skip_stages, stop_on_error, exit_code, report,
                 missing, invoked, decisions, failed, interrupted, pure>>

\* variant: a failed stage is tried again instead of being left behind
StageRaisesRetry ==
  /\ pc = "exec"
  /\ LET stage == STAGES[idx] IN
     \E o \in StageOutcomes(stage) :
       /\ o.raised
       /\ failed' = failed \cup {stage}
       /\ extfail' = IF o.ext THEN extfail \cup {stage} ELSE extfail
       /\ WriteFS(o.fs)
       /\ RecordCall(stage)
  /\ IF HandlerReraises
     THEN pc' = "done" /\ exit_code' = 1 /\ idx' = idx
     ELSE pc' = "loop" /\ exit_code' = exit_code /\ idx' = idx
  /\ UNCHANGED <<runner, report, missing, invoked, decisions, interrupted,
                 pure>>

\* variant: run() prints the report before it exits on a stage failure
StageRaisesThenReports ==
  /\ pc = "exec"
  /\ LET stage == STAGES[idx] IN
     \E o \in StageOutcomes(stage) :
       /\ o.raised
       /\ failed' = failed \cup {stage}
       /\ extfail' = IF o.ext THEN extfail \cup {stage} ELSE extfail
       /\ WriteFS(o.fs)
       /\ RecordCall(stage)
  /\ IF HandlerReraises
     THEN /\ pc' = "done" /\ exit_code' = 1 /\ idx' = idx
          /\ report' = [s \in StageSet |-> IF s \in stage_times THEN "ok"
                                           ELSE "not-run"]
     ELSE /\ pc' = "loop" /\ exit_code' = exit_code /\ idx' = idx + 1
          /\ report' = report
  /\ UNCHANGED <<runner, missing, invoked, decisions, interrupted, pure>>

\* variant: a stage can fail after it has written its artifact
StageRaisesAfterWriting ==
  /\ pc = "exec"
  /\ LET stage == STAGES[idx] IN
     \E o \in StageOutcomes(stage) :
       /\ o.raised
       /\ failed' = failed \cup {stage}
       /\ extfail' = IF o.ext THEN extfail \cup {stage} ELSE extfail
       /\ \E w \in StageOutcomes(stage) : WriteFS(w.fs)
       /\ RecordCall(stage)
  /\ IF HandlerReraises
     THEN pc' = "done" /\ exit_code' = 1 /\ idx' = idx
     ELSE pc' = "loop" /\ exit_code' = exit_code /\ idx' = idx + 1
  /\ UNCHANGED <<runner, report, missing, invoked, decisions, interrupted,
                 pure>>

\* main.py 283-289 and 316-318: the try block raises an Exception; it is
\* logged, then re-raised to run(), which exits 1, or swallowed
StageRaises ==
  /\ pc = "exec"
  /\ LET stage == STAGES[idx] IN
     \E o \in StageOutcomes(stage) :
       /\ o.raised
       /\ failed' = failed \cup {stage}
       /\ extfail' = IF o.ext THEN extfail \cup {stage} ELSE extfail
       /\ WriteFS(o.fs)
       /\ RecordCall(stage)
  /\ IF HandlerReraises
     THEN pc' = "done" /\ exit_code' = 1 /\ idx' = idx
     ELSE pc' = "loop" /\ exit_code' = exit_code /\ idx' = idx + 1
  /\ UNCHANGED <<runner, report, missing, invoked, decisions, interrupted,
                 pure>>

\* variant: the handler of execute_stage catches the interrupt like any
\* other exception
InterruptCaught ==
  /\ pc = "exec"
  /\ interrupted' = TRUE
  /\ IF HandlerReraises
     THEN pc' = "done" /\ exit_code' = 1 /\ idx' = idx
     ELSE pc' = "loop" /\ exit_code' = exit_code /\ idx' = idx + 1
  /\ UNCHANGED <<runner, report, missing, fs, invoked, decisions,
                 failed, extfail, adapter_args, pure>>

\* main.py 313-315: a KeyboardInterrupt during the adapter passes the
\* handler of execute_stage (it is no Exception) and run() exits 1; what the
\* adapter had written by then stays on disk
Interrupt ==
  /\ pc = "exec"
  /\ interrupted' = TRUE
  /\ pc' = "done"
  /\ exit_code' = 1
  /\ \E f \in {CurFS} \cup {o.fs : o \in StageOutcomes(STAGES[idx])} : WriteFS(f)
  /\ RecordCall(STAGES[idx])
  /\ UNCHANGED <<runner, idx, report, missing, invoked, decisions,
                 failed, extfail, pure>>

\* main.py 336-353: the status line of a stage in the final report
ReportStatus(stage) ==
  IF stage \in stage_times THEN "ok"
  ELSE IF should_skip_stage(stage) THEN "skip"
  ELSE "not-run"

\* variant: a run in which a stage failed ends with status 1
ExitStatusCountsFailures == IF failed = {} THEN 0 ELSE 1

\* main.py 321 and 438: run() and main() return, the interpreter exits 0
ExitStatusAfterReport == 0

\* main.py 320-321: the loop is over, the report is printed and run()
\* returns
PrintReport ==
  /\ pc = "loop"
  /\ idx = Len(STAGES) + 1
  /\ report' = [s \in StageSet |-> ReportStatus(s)]
  /\ pc' = "done"
  /\ exit_code' = ExitStatusAfterReport
  /\ UNCHANGED <<runner, idx, missing, fs, obs, pure>>

Next ==
  \/ Validate
  \/ LoopStep
  \/ StageReturns
  \/ StageRaises
  \/ Interrupt
  \/ PrintReport

Spec == Init /\ [][Next]_vars

(***************************************************************************)
(* The same run on a machine with every dependency present and several     *)
(* videos, transcripts and analyses left by earlier runs: the setting of   *)
(* the fallback inputs (find_latest_video, find_latest_transcript,         *)
(* find_latest_analysis).                                                  *)
(***************************************************************************)
StoreInit ==
  /\ missing = {}
  /\ raw \in DistinctSeqs(Vids)
  /\ transcripts \in DistinctSeqs(Vids)
  /\ Len(raw) + Len(transcripts) <= MaxFiles
  /\ analyses \in DistinctSeqs(Vids)
  /\ Len(raw) + Len(transcripts) + Len(analyses) <= MaxFiles
  /\ cutfiles = {}
  /\ shorts = {}
  /\ ncuts \in [Stems -> 0..MaxCuts]
  /\ \A v \in Stems : v \notin Range(analyses) => ncuts[v] = 0
  /\ RunnerConstructed
  /\ PureUnused

StoreSpec == StoreInit /\ [][Next]_vars

(***************************************************************************)
(* The cut filter of analyze_transcript (3_analyze.py 183-225), checked on *)
(* its own: the model's answer and the two settings are drawn from small   *)
(* sets and the filter is applied to them.  Scores are in tenths.          *)
(***************************************************************************)
Scores == {60, 79, 80, 95}

\* a cut of the answer: whether it has 'start' and 'end', and the key its
\* score comes under
CutEntry(times, key, score) == [times |-> times, key |-> key, score |-> score]

CandidateCuts ==
  {CutEntry(TRUE, "viral_score", s) : s \in Scores}
    \cup {CutEntry(TRUE, "retention_score", 80),
          CutEntry(FALSE, "viral_score", 95),
          CutEntry(TRUE, "none", 0)}

Thresholds == {0, 80, 95, 100}

\* 3_analyze.py 199: cut.get('viral_score', cut.get('retention_score', 0))
viral_score(cut) == IF cut.key = "none" THEN 0 ELSE cut.score

\* 3_analyze.py 186-211: cuts without timestamps are dropped, the score of
\* the others is normalised; pos is the place of the cut in the answer
validated_cuts(list) ==
  LET indexed == [i \in 1..Len(list) |-> [pos |-> i, cut |-> list[i]]]
      kept == SelectSeq(indexed, LAMBDA e : e.cut.times)
  IN [i \in 1..Len(kept) |->
        [pos |-> kept[i].pos, viral_score |-> viral_score(kept[i].cut)]]

\* variant: the threshold itself is excluded
filtered_cuts_strict(validated, m) ==
  SelectSeq(validated, LAMBDA c : c.viral_score > m)

\* 3_analyze.py 215-218
filtered_cuts(validated, m) ==
  SelectSeq(validated, LAMBDA c : c.viral_score >= m)

\* variant: a sort that puts a cut before the cuts of equal score
InsertByScore_before_equals(sorted, c) ==
  SelectSeq(sorted, LAMBDA x : x.viral_score > c.viral_score)
    \o <<c>>
    \o SelectSeq(sorted, LAMBDA x : x.viral_score <= c.viral_score)

\* c put into a list sorted by falling score, after the cuts that score at
\* least as much (list.sort is stable, also with reverse=True)
InsertByScore(sorted, c) ==
  SelectSeq(sorted, LAMBDA x : x.viral_score >= c.viral_score)
    \o <<c>>
    \o SelectSeq(sorted, LAMBDA x : x.viral_score < c.viral_score)

\* 3_analyze.py 221: sort(key=viral_score, reverse=True)
RECURSIVE sort_by_viral_score(_)
sort_by_viral_score(list) ==
  IF list = <<>> THEN <<>>
  ELSE InsertByScore(sort_by_viral_score(SubSeq(list, 1, Len(list) - 1)),
                     list[Len(list)])

\* 3_analyze.py 225: filtered_cuts[:max_cuts_to_export]
SliceTo(list, k) == SubSeq(list, 1, IF k < Len(list) THEN k ELSE Len(list))

\* the variables of a pipeline run, at rest
PipelineUnused ==
  /\ resume = FALSE
  /\ skip_stages = {}
  /\ stop_on_error = TRUE
  /\ stage_times = {}
  /\ results = EmptyDict
  /\ idx = 1
  /\ exit_code = -1
  /\ report = EmptyDict
  /\ missing = {}
  /\ raw = <<>>
  /\ transcripts = <<>>
  /\ analyses = <<>>
  /\ ncuts = [v \in Stems |-> 0]
  /\ cutfiles = {}
  /\ shorts = {}
  /\ invoked = <<>>
  /\ decisions = EmptyDict
  /\ failed = {}
  /\ extfail = {}
  /\ interrupted = FALSE
  /\ adapter_args = EmptyDict

\* the sequences over S of length at most n
SeqsUpTo(S, n) == UNION {[1..k -> S] : k \in 0..n}

FilterInit ==
  /\ cuts_list \in SeqsUpTo(CandidateCuts, MaxCands)
  /\ min_viral_score \in Thresholds
  /\ max_cuts_to_export \in 0..MaxExport
  /\ final_cuts = <<>>
  /\ url = <<>>
  /\ video_id = NoId
  /\ pc = "filter"
  /\ PipelineUnused

\* 3_analyze.py 183-225
FilterCuts ==
  /\ pc = "filter"
  /\ final_cuts' =
       SliceTo(sort_by_viral_score(
                 filtered_cuts(validated_cuts(cuts_list), min_viral_score)),
               max_cuts_to_export)
  /\ pc' = "filtered"
  /\ UNCHANGED <<runner, idx, exit_code, report, missing, fs, obs,
                 url, cuts_list, min_viral_score, max_cuts_to_export>>

\* the cut dicts of a retained list, as the validation loop left them:
\* with timestamps and with the key viral_score (3_analyze.py 200)
RetainedEntries(list) ==
  [i \in 1..Len(list) |-> CutEntry(TRUE, "viral_score", list[i].viral_score)]

\* 3_analyze.py 183-225 applied to the list it retained, with the same
\* threshold and cap
FilterAgain ==
  /\ pc = "filtered"
  /\ cuts_list' = RetainedEntries(final_cuts)
  /\ final_cuts' =
       SliceTo(sort_by_viral_score(
                 filtered_cuts(validated_cuts(RetainedEntries(final_cuts)),
                               min_viral_score)),
               max_cuts_to_export)
  /\ pc' = "refiltered"
  /\ UNCHANGED <<runner, idx, exit_code, report, missing, fs, obs,
                 url, min_viral_score, max_cuts_to_export>>

FilterNext == FilterCuts \/ FilterAgain

FilterSpec == FilterInit /\ [][FilterNext]_vars

(***************************************************************************)
(* _extract_video_id (main.py 105-118), checked on its own.  A string is   *)
(* the sequence of its characters; re.search finds the leftmost place      *)
(* where the pattern matches.                                              *)
(***************************************************************************)
\* the class 0-9
Digits ==
  {"0", "1", "2", "3", "4", "5", "6", "7", "8", "9"}

\* the class A-Z
UpperCase ==
  {"A", "B", "C", "D", "E", "F", "G", "H", "I", "J", "K", "L", "M", "N",
   "O", "P", "Q", "R", "S", "T", "U", "V", "W", "X", "Y", "Z"}

\* the class a-z
LowerCase ==
  {"a", "b", "c", "d", "e", "f", "g", "h", "i", "j", "k", "l", "m", "n",
   "o", "p", "q", "r", "s", "t", "u", "v", "w", "x", "y", "z"}

\* variant: the class without the underscore and the hyphen
IdChars_alnum == Digits \cup UpperCase \cup LowerCase

\* the character class [0-9A-Za-z_-]
IdChars == Digits \cup UpperCase \cup LowerCase \cup {"_", "-"}

\* the repetition count {11}
IdLen == 11

\* re.search found nothing: the function returns None
NoMatch == [matched |-> FALSE, id |-> <<>>]

\* match.group(1)
Group(s, p) == [matched |-> TRUE, id |-> SubSeq(s, p, p + IdLen - 1)]

\* ([0-9A-Za-z_-]{11}) matches at place p of s
IdRunAt(s, p) ==
  /\ p >= 1
  /\ p + IdLen - 1 <= Len(s)
  /\ \A i \in p..(p + IdLen - 1) : s[i] \in IdChars

\* the literal text lit stands at place p of s
LiteralAt(s, p, lit) ==
  /\ p + Len(lit) - 1 <= Len(s)
  /\ \A i \in 1..Len(lit) : s[p + i - 1] = lit[i]

\* the least element of a non-empty set of places
Leftmost(P) == CHOOSE p \in P : \A q \in P : p <= q

\* re.search(r'(?:v=|\/)([0-9A-Za-z_-]{11}).*', s)
SearchWatch(s) ==
  LET start(p) == IF LiteralAt(s, p, <<"v", "=">>) /\ IdRunAt(s, p + 2) THEN p + 2
                  ELSE IF LiteralAt(s, p, <<"/">>) /\ IdRunAt(s, p + 1) THEN p + 1
                  ELSE 0
      P == {p \in 1..Len(s) : start(p) > 0}
  IN IF P = {} THEN NoMatch ELSE Group(s, start(Leftmost(P)))

\* re.search(r'(?:embed\/)([0-9A-Za-z_-]{11})', s)
SearchEmbed(s) ==
  LET lit == <<"e", "m", "b", "e", "d", "/">>
      P == {p \in 1..Len(s) : LiteralAt(s, p, lit) /\ IdRunAt(s, p + Len(lit))}
  IN IF P = {} THEN NoMatch ELSE Group(s, Leftmost(P) + Len(lit))

\* re.search(r'^([0-9A-Za-z_-]{11})$', s); $ also matches before a final
\* newline
SearchBare(s) ==
  IF IdRunAt(s, 1) /\ (Len(s) = IdLen \/ (Len(s) = IdLen + 1 /\ s[Len(s)] = "\n"))
  THEN Group(s, 1)
  ELSE NoMatch

\* main.py 105-118: the patterns in order, the first match is returned
extract_video_id(s) ==
  IF SearchWatch(s).matched THEN SearchWatch(s)
  ELSE IF SearchEmbed(s).matched THEN SearchEmbed(s)
  ELSE SearchBare(s)

\* the identifier dQw4w9WgXcQ
ExampleId ==
  <<"d", "Q", "w", "4", "w", "9", "W", "g", "X", "c", "Q">>

\* the characters the first places of an identifier are varied over
VaryChars == {"v", "-", "_", "7"}

\* identifiers: the example with its first VaryLen characters varied
Ids ==
  {ExampleId} \cup
  {[i \in 1..IdLen |-> IF i <= VaryLen THEN h[i] ELSE ExampleId[i]] :
     h \in [1..VaryLen -> VaryChars]}

\* https://www.youtube.com/watch?v=
WatchUrl ==
  <<"h", "t", "t", "p", "s", ":", "/", "/", "w", "w", "w", ".", "y", "o",
    "u", "t", "u", "b", "e", ".", "c", "o", "m", "/", "w", "a", "t", "c",
    "h", "?", "v", "=">>

\* http://youtube.com/watch?v=
WatchUrlPlain ==
  <<"h", "t", "t", "p", ":", "/", "/", "y", "o", "u", "t", "u", "b", "e",
    ".", "c", "o", "m", "/", "w", "a", "t", "c", "h", "?", "v", "=">>

\* https://m.youtube.com/watch?feature=share&v=
WatchUrlMobile ==
  <<"h", "t", "t", "p", "s", ":", "/", "/", "m", ".", "y", "o", "u", "t",
    "u", "b", "e", ".", "c", "o", "m", "/", "w", "a", "t", "c", "h", "?",
    "f", "e", "a", "t", "u", "r", "e", "=", "s", "h", "a", "r", "e", "&",
    "v", "=">>

\* https://youtu.be/
ShortUrl ==
  <<"h", "t", "t", "p", "s", ":", "/", "/", "y", "o", "u", "t", "u", ".",
    "b", "e", "/">>

\* https://www.youtube.com/v/
PathUrl ==
  <<"h", "t", "t", "p", "s", ":", "/", "/", "w", "w", "w", ".", "y", "o",
    "u", "t", "u", "b", "e", ".", "c", "o", "m", "/", "v", "/">>

\* https://www.youtube.com/embed/
EmbedUrl ==
  <<"h", "t", "t", "p", "s", ":", "/", "/", "w", "w", "w", ".", "y", "o",
    "u", "t", "u", "b", "e", ".", "c", "o", "m", "/", "e", "m", "b", "e",
    "d", "/">>

\* https://www.youtube-nocookie.com/embed/
EmbedUrlNoCookie ==
  <<"h", "t", "t", "p", "s", ":", "/", "/", "w", "w", "w", ".", "y", "o",
    "u", "t", "u", "b", "e", "-", "n", "o", "c", "o", "o", "k", "i", "e",
    ".", "c", "o", "m", "/", "e", "m", "b", "e", "d", "/">>

\* &t=42s
TimeSuffix ==
  <<"&", "t", "=", "4", "2", "s">>

\* what precedes the identifier in the supported shapes: the watch URL with
\* the v= parameter or a path segment, the embed URL, and nothing (the bare
\* identifier)
WatchShapes == {WatchUrl, WatchUrlPlain, WatchUrlMobile, ShortUrl, PathUrl}
EmbedShapes == {EmbedUrl, EmbedUrlNoCookie}

\* the inputs of the supported shapes that carry the identifier id
SupportedInputs(id) ==
  {p \o id \o t : p \in WatchShapes \cup EmbedShapes, t \in {<<>>, TimeSuffix}}
    \cup {id}

\* https://example.com/hello_world
OtherPathUrl ==
  <<"h", "t", "t", "p", "s", ":", "/", "/", "e", "x", "a", "m", "p", "l",
    "e", ".", "c", "o", "m", "/", "h", "e", "l", "l", "o", "_", "w", "o",
    "r", "l", "d">>

\* https://www.youtube.com/feed/subscriptions
FeedUrl ==
  <<"h", "t", "t", "p", "s", ":", "/", "/", "w", "w", "w", ".", "y", "o",
    "u", "t", "u", "b", "e", ".", "c", "o", "m", "/", "f", "e", "e", "d",
    "/", "s", "u", "b", "s", "c", "r", "i", "p", "t", "i", "o", "n", "s">>

\* https://www.youtube.com/
HomeUrl ==
  <<"h", "t", "t", "p", "s", ":", "/", "/", "w", "w", "w", ".", "y", "o",
    "u", "t", "u", "b", "e", ".", "c", "o", "m", "/">>

\* https://www.youtube.com/watch?v=short
ShortParamUrl ==
  <<"h", "t", "t", "p", "s", ":", "/", "/", "w", "w", "w", ".", "y", "o",
    "u", "t", "u", "b", "e", ".", "c", "o", "m", "/", "w", "a", "t", "c",
    "h", "?", "v", "=", "s", "h", "o", "r", "t">>

\* https://example.com/aaaaaaaaaaa/embed/bbbbbbbbbbb
TwoSegmentUrl ==
  <<"h", "t", "t", "p", "s", ":", "/", "/", "e", "x", "a", "m", "p", "l",
    "e", ".", "c", "o", "m", "/", "a", "a", "a", "a", "a", "a", "a", "a",
    "a", "a", "a", "/", "e", "m", "b", "e", "d", "/", "b", "b", "b", "b",
    "b", "b", "b", "b", "b", "b", "b">>

\* dQw4w9WgXc
ShortToken ==
  <<"d", "Q", "w", "4", "w", "9", "W", "g", "X", "c">>

\* dQw4w9WgXcQQ
LongToken ==
  <<"d", "Q", "w", "4", "w", "9", "W", "g", "X", "c", "Q", "Q">>

\* not a url
PlainText ==
  <<"n", "o", "t", " ", "a", " ", "u", "r", "l">>

\* inputs of none of the supported shapes
OtherInputs ==
  {OtherPathUrl, FeedUrl, HomeUrl, ShortParamUrl, TwoSegmentUrl,
   ShortToken, LongToken, PlainText, <<>>}

ExtractInit ==
  /\ url \in UNION {SupportedInputs(id) : id \in Ids} \cup OtherInputs
  /\ video_id = NoMatch
  /\ pc = "new"
  /\ cuts_list = <<>>
  /\ min_viral_score = 0
  /\ max_cuts_to_export = 0
  /\ final_cuts = <<>>
  /\ PipelineUnused

\* main.py 91-92: self.video_id = video_id or self._extract_video_id(url),
\* no identifier given
ExtractVideoId ==
  /\ pc = "new"
  /\ video_id' = extract_video_id(url)
  /\ pc' = "constructed"
  /\ UNCHANGED <<resume, skip_stages, stop_on_error, stage_times, results,
                 idx, exit_code, report, missing, fs, obs, pure>>

ExtractNext == ExtractVideoId

ExtractSpec == ExtractInit /\ [][ExtractNext]_vars

(***************************************************************************)
(* Properties of a run.                                                    *)
(***************************************************************************)
\* the stages execute_stage was called for
Invoked == Range(invoked)

\* the stages the loop has taken a skip decision for
Decided == DOMAIN decisions

\* the position of a stage in the fixed order of the pipeline
OrderOf(s) ==
  CASE s = "download" -> 1
    [] s = "transcribe" -> 2
    [] s = "analyze" -> 3
    [] s = "cut" -> 4
    [] s = "export" -> 5

\* the stages whose adapter was called and has neither returned nor raised
InProgress == {s \in Invoked : s \notin stage_times /\ s \notin failed}

\* a required tool or package is missing
RequiredMissing == (Tools \cup RequiredPackages) \cap missing /= {}

\* C1: the stages are invoked in the order download, transcribe, analyze,
\* cut, export: each call of execute_stage is for a stage later in that order
\* than every stage called before it (so no stage is called twice and none
\* after a later one), and at most one stage is in progress at any time.
C1_FixedStageOrder ==
  /\ \A i, j \in 1..Len(invoked) :
        i < j => OrderOf(invoked[i]) < OrderOf(invoked[j])
  /\ Cardinality(InProgress) <= 1
  /\ pc = "exec" => InProgress = {invoked[Len(invoked)]}

C1_Witness == invoked = STAGES /\ "analyze" \in failed /\ pc = "done"

\* C2: with stop_on_error set, once the adapter of a stage has failed no
\* stage after it is invoked and the process has ended with a non-zero
\* exit code.
C2_StopOnError ==
  stop_on_error =>
    \A s \in failed :
      /\ \A t \in Invoked : OrderOf(t) <= OrderOf(s)
      /\ pc = "done"
      /\ exit_code > 0

C2_Witness ==
  /\ stop_on_error
  /\ "analyze" \in failed
  /\ "transcribe" \in stage_times
  /\ skip_stages = {}

\* C3: with stop_on_error off, a stage failure does not end the run: the
\* loop moves on to the next stage, every later stage the loop has passed
\* got its skip decision and was invoked when that decision was false, and
\* unless an interrupt arrives the loop passes all five stages.
C3_ContinueOnError ==
  ~stop_on_error =>
    \A s \in failed :
      /\ exit_code > 0 => interrupted
      /\ idx > OrderOf(s)
      /\ \A t \in StageSet :
            OrderOf(s) < OrderOf(t) /\ OrderOf(t) < idx =>
              t \in Decided /\ (~decisions[t] => t \in Invoked)
      /\ pc = "done" /\ ~interrupted => idx = Len(STAGES) + 1

C3_Witness ==
  /\ ~stop_on_error
  /\ "analyze" \in failed
  /\ "cut" \in failed
  /\ "cut" \notin extfail

\* C4: a stage in the forced-skip set is never invoked, whatever the resume
\* flag, the identifier and the files on disk are.
C4_ForcedSkipNeverInvoked == \A s \in skip_stages : s \notin Invoked

C4_Witness ==
  /\ ~resume
  /\ "transcribe" \in skip_stages
  /\ transcripts = <<>>
  /\ "transcribe" \in Decided
  /\ "download" \in stage_times

\* C5: when the loop reaches a stage in resume mode with the identifier set
\* and a file matching the stage's checkpoint pattern for it, the skip
\* decision is true and the stage is not invoked: the loop goes to the next
\* stage.
C5_ResumeSkipsCheckpointed ==
  [][(/\ pc = "loop"
      /\ idx <= Len(STAGES)
      /\ resume
      /\ video_id /= NoId
      /\ GlobMatches(STAGES[idx], video_id))
     => (/\ decisions'[STAGES[idx]] = TRUE
         /\ invoked' = invoked
         /\ pc' = "loop"
         /\ idx' = idx + 1)]_vars

C5_Witness ==
  \E s \in Decided :
    /\ decisions[s]
    /\ s \notin skip_stages
    /\ s /= "download"
    /\ s \notin Invoked

\* C6: when the loop reaches a stage that is not in the forced-skip set and
\* resume is off, or the identifier is unset, or no file matches the stage's
\* checkpoint pattern, the skip decision is false and the stage is invoked.
C6_RunsUnlessCheckpointed ==
  [][(/\ pc = "loop"
      /\ idx <= Len(STAGES)
      /\ STAGES[idx] \notin skip_stages
      /\ \/ ~resume
         \/ video_id = NoId
         \/ ~GlobMatches(STAGES[idx], video_id))
     => (/\ decisions'[STAGES[idx]] = FALSE
         /\ invoked' = Append(invoked, STAGES[idx])
         /\ pc' = "exec")]_vars

\* the scenario of the specification: forced skip of download and
\* transcribe, an analysis checkpoint of the identifier, resume off
C6_Witness ==
  /\ ~resume
  /\ skip_stages = {"download", "transcribe"}
  /\ video_id = UrlVid
  /\ UrlVid \in Range(analyses)
  /\ "analyze" \in Invoked

\* C7: a run with no forced skip, resume off, every dependency present, no
\* interrupt and no failure of an external tool, the API or the settings
\* file ends with all five stages completed, the report printed and exit
\* code 0.
C7_FullSuccess ==
  (/\ pc = "done"
   /\ skip_stages = {}
   /\ ~resume
   /\ missing = {}
   /\ ~interrupted
   /\ extfail = {})
  => (/\ stage_times = StageSet
      /\ report /= EmptyDict
      /\ exit_code = 0)

\* C8: validation comes before any stage; once it is over, the run has
\* ended with a non-zero exit code and no stage invoked exactly when a
\* required tool or package is missing; with only optional packages or the
\* credential missing the stage loop is entered.
C8_PreflightValidation ==
  /\ pc = "start" => invoked = <<>> /\ Decided = {}
  /\ pc /= "start" =>
       ((pc = "done" /\ exit_code > 0 /\ invoked = <<>>) <=> RequiredMissing)
  /\ pc /= "start" /\ ~RequiredMissing => pc = "loop" \/ Decided /= {}

C8_Witness ==
  /\ "faster-whisper" \in missing
  /\ "download" \in stage_times
  /\ "transcribe" \in failed

\* the files of every store are still there after the step
FilesKept ==
  /\ Range(raw) \subseteq Range(raw')
  /\ Range(transcripts) \subseteq Range(transcripts')
  /\ Range(analyses) \subseteq Range(analyses')
  /\ cutfiles \subseteq cutfiles'
  /\ shorts \subseteq shorts'

\* C9: an interrupt during a stage ends the run at once with a non-zero
\* exit code, for both values of stop_on_error: no further stage is invoked,
\* no report is printed and no file is removed.
C9_InterruptAborts ==
  [][interrupted' =>
       /\ pc' = "done"
       /\ exit_code' > 0
       /\ report' = EmptyDict
       /\ invoked' = invoked
       /\ FilesKept]_vars

C9_Witness ==
  /\ interrupted
  /\ ~stop_on_error
  /\ invoked = <<"download", "transcribe">>

\* how far run() has got
Progress ==
  CASE pc = "start" -> 0
    [] pc = "loop" -> 2 * idx
    [] pc = "exec" -> 2 * idx + 1
    [] pc = "done" -> 2 * (Len(STAGES) + 2)

\* C10: the run always terminates (every step moves run() forward and a step
\* is possible until it has ended); with stop_on_error off, validation
\* passed and no interrupt it ends with the report printed and exit code 0;
\* a non-zero exit code comes only from a failed validation, an interrupt,
\* or a stage failure with stop_on_error set.
C10_ExitCodes ==
  /\ [][Progress' > Progress]_vars
  /\ [](pc = "done" \/ ENABLED Next)
  /\ [](pc = "done" /\ ~stop_on_error /\ ~RequiredMissing /\ ~interrupted
          => report /= EmptyDict /\ exit_code = 0)
  /\ [](exit_code > 0 =>
          \/ RequiredMissing
          \/ interrupted
          \/ stop_on_error /\ failed /= {})

C10_Witness ==
  /\ ~stop_on_error
  /\ Cardinality(failed) >= 3
  /\ pc = "done"
  /\ exit_code = 0
  /\ report /= EmptyDict

\* C11 as stated: every run that got past dependency validation and was not
\* interrupted ends with the final report printed, also a run that a stage
\* failure ended (stop_on_error set), and the report shows as done the stages
\* whose results were recorded before the abort.
C11_ReportOnEveryRun ==
  pc = "done" /\ ~RequiredMissing /\ ~interrupted =>
    /\ DOMAIN report = StageSet
    /\ \A s \in stage_times : report[s] = "ok"

\* C11, amended: the final report is printed exactly by the runs whose stage
\* loop came to its end, that is the runs that passed validation, were not
\* interrupted and were not ended by a stage failure under stop_on_error; a
\* run ended by a stage failure under stop_on_error exits 1 with no report.
\* A printed report has a line for each of the five stages and shows as done
\* exactly the stages with a recorded result.
C11_ReportOnlyWhenLoopEnds ==
  pc = "done" =>
    /\ report /= EmptyDict <=>
         ~RequiredMissing /\ ~interrupted /\ ~(stop_on_error /\ failed /= {})
    /\ report /= EmptyDict =>
         /\ DOMAIN report = StageSet
         /\ \A s \in StageSet : report[s] = "ok" <=> s \in stage_times

C11_Witness ==
  /\ pc = "done"
  /\ ~RequiredMissing
  /\ ~interrupted
  /\ stop_on_error
  /\ failed /= {}
  /\ stage_times /= {}
  /\ report = EmptyDict
  /\ exit_code = 1

\* C12 as stated: when transcribe completed in this run, the analyze adapter
\* is called with the transcript file that transcribe wrote in this run (the
\* file of the video it transcribed), handed over through the results.
C12_AnalyzeGetsHandedTranscript ==
  "transcribe" \in stage_times /\ "analyze" \in DOMAIN adapter_args =>
    adapter_args["analyze"] =
      <<MkPath("transcripts", results["transcript"].video_id)>>

\* C13 as stated: when analyze executes and the results hold no transcript of
\* this run, the analyze adapter is called with the most recently modified
\* file of the transcript store, and the stage fails only if the store holds
\* no transcript (or the API call itself fails).
C13_AnalyzeFallsBackToLatest ==
  /\ "analyze" \in failed \cup stage_times
  /\ "transcript" \notin DOMAIN results
  /\ ModuleLoads("analyze")
  => IF transcripts = <<>>
     THEN "analyze" \in failed
     ELSE /\ "analyze" \in DOMAIN adapter_args
          /\ adapter_args["analyze"] = <<MkPath("transcripts", Last(transcripts))>>
          /\ "analyze" \in failed => "analyze" \in extfail

C15_TranscribeInput ==
  /\ "transcribe" \in DOMAIN adapter_args =>
       adapter_args["transcribe"] =
         IF "download" \in stage_times THEN <<results["video_path"]>>
         ELSE <<MkPath("raw", Last(raw))>>
  /\ /\ "transcribe" \in Invoked \ InProgress
     /\ ~interrupted
     /\ "download" \notin stage_times
     /\ raw = <<>>
     => "transcribe" \in failed /\ "transcribe" \notin DOMAIN adapter_args

C15_Witness ==
  /\ "transcribe" \in DOMAIN adapter_args
  /\ "download" \notin stage_times
  /\ Len(raw) = 2
  /\ adapter_args["transcribe"] = <<MkPath("raw", Last(raw))>>

\* the checkpoint files on disk, as (directory, video) pairs
CheckpointFiles ==
  UNION {{<<CHECKPOINTS[s], v>> : v \in FilesIn(CHECKPOINTS[s])} : s \in StageSet}

\* C19: no step of a run, whatever the flags, the stage failures or an
\* interrupt, removes a checkpoint file: the set of checkpoint files after a
\* step contains the set before it.
C19_CheckpointsOnlyGrow == [][CheckpointFiles \subseteq CheckpointFiles']_vars

C19_Witness ==
  /\ Len(transcripts) = 2
  /\ Cardinality(CheckpointFiles) >= 3
  /\ failed /= {}
  /\ pc = "done"

\* the stages whose adapter call was made and came back without an exception
Returned ==
  {s \in Invoked : /\ s \notin failed
                   /\ ~(s = Last(invoked) /\ (pc = "exec" \/ interrupted))}

\* C20: at every point of a run a stage has a duration entry exactly when its
\* result is recorded, and exactly when it was called in this run and came
\* back without failure; a step that skips a stage or in which a stage fails
\* changes neither map, and a stage decided to be skipped has no result to
\* hand on.
C20_MapsRecordReturnedStages ==
  /\ [](\A s \in StageSet :
          /\ s \in stage_times <=> ResultKey[s] \in DOMAIN results
          /\ s \in stage_times <=> s \in Returned
          /\ s \in Decided /\ decisions[s] => ResultKey[s] \notin DOMAIN results)
  /\ [][(failed' /= failed \/ (pc = "loop" /\ idx' = idx + 1))
          => UNCHANGED <<stage_times, results>>]_vars

C20_Witness ==
  /\ resume
  /\ "download" \in Decided
  /\ decisions["download"]
  /\ "download" \notin skip_stages
  /\ "transcribe" \in stage_times
  /\ "video_path" \notin DOMAIN results
  /\ "analyze" \in failed

\* the candidates of the filter: the cuts of the answer that have timestamps,
\* with their normalised score
Candidates == Range(validated_cuts(cuts_list))

Survivors == {c \in Candidates : c.viral_score >= min_viral_score}

\* C16: for every list of cut candidates, minimum score m and export cap k,
\* the cut list analyze retains holds only candidates that score at least m,
\* each once, in order of non-increasing score, and has min(k, number of
\* survivors) entries, none of which scores less than a survivor left out;
\* scores 9.5, 8.0, 7.9, 6.0 with m = 8.0 and k = 3 give exactly [9.5, 8.0].
C16_CutFilter ==
  pc = "filtered" =>
    /\ \A i \in 1..Len(final_cuts) : final_cuts[i] \in Survivors
    /\ \A i, j \in 1..Len(final_cuts) : final_cuts[i] = final_cuts[j] => i = j
    /\ \A i, j \in 1..Len(final_cuts) :
         i < j => final_cuts[i].viral_score >= final_cuts[j].viral_score
    /\ Len(final_cuts) <= max_cuts_to_export
    /\ Len(final_cuts) = IF Cardinality(Survivors) < max_cuts_to_export
                         THEN Cardinality(Survivors) ELSE max_cuts_to_export
    /\ \A c \in Survivors \ Range(final_cuts) : \A i \in 1..Len(final_cuts) :
         c.viral_score <= final_cuts[i].viral_score
    /\ ( /\ cuts_list = <<CutEntry(TRUE, "viral_score", 95),
                          CutEntry(TRUE, "viral_score", 80),
                          CutEntry(TRUE, "viral_score", 79),
                          CutEntry(TRUE, "viral_score", 60)>>
         /\ min_viral_score = 80
         /\ max_cuts_to_export = 3 )
       => [i \in 1..Len(final_cuts) |-> final_cuts[i].viral_score] = <<95, 80>>

C16_Witness ==
  /\ pc = "filtered"
  /\ Len(cuts_list) = 4
  /\ {cuts_list[i].score : i \in 1..4} = Scores
  /\ \A i \in 1..4 : cuts_list[i].times /\ cuts_list[i].key = "viral_score"
  /\ min_viral_score = 80
  /\ max_cuts_to_export = 3
  /\ Len(final_cuts) = 2
  /\ final_cuts[1].viral_score = 95
  /\ final_cuts[2].viral_score = 80

\* the result for an identifier that was found
Found(id) == [matched |-> TRUE, id |-> id]

\* C17: for every 11-character identifier over [0-9A-Za-z_-] embedded in one
\* of the supported shapes (watch URL with the v= parameter or a path
\* segment, embed URL, bare identifier), _extract_video_id returns exactly
\* that identifier, so the example URL yields dQw4w9WgXcQ; the patterns are
\* tried in order and the first one that matches decides the result.
C17_ExtractsEmbeddedId ==
  pc = "constructed" =>
    /\ \A id \in Ids : url \in SupportedInputs(id) => video_id = Found(id)
    /\ url = WatchUrl \o ExampleId => video_id.id = ExampleId
    /\ SearchWatch(url).matched => video_id = SearchWatch(url)
    /\ ~SearchWatch(url).matched /\ SearchEmbed(url).matched
         => video_id = SearchEmbed(url)

C17_Witness ==
  /\ pc = "constructed"
  /\ url = WatchUrl \o ExampleId
  /\ video_id = Found(ExampleId)

\* C18 as stated: for an input of none of the supported shapes, such as a
\* URL whose path has some other 11-character segment or a bare token that
\* is not 11 characters long, _extract_video_id returns None.
C18_OtherInputsYieldNone ==
  pc = "constructed" /\ url \in OtherInputs => video_id = NoMatch

\* C21: the video identifier changes at most once in a run: a step changes it
\* only when it is unset and the download stage returns in that step, and it
\* becomes the stem of the file download returned; an identifier that is set
\* (extracted from the URL or supplied by download) is kept by every step,
\* and a step in which download is skipped or fails leaves an unset
\* identifier unset.
C21_IdentifierSetOnce ==
  /\ [][video_id /= NoId => video_id' = video_id]_vars
  /\ [][video_id' /= video_id =>
          /\ pc = "exec"
          /\ STAGES[idx] = "download"
          /\ "download" \in stage_times' \ stage_times
          /\ video_id' = results'["video_path"].stem]_vars
  /\ [](video_id = NoId => "download" \notin stage_times)

C21_Witness ==
  /\ video_id = "v2"
  /\ "download" \in stage_times
  /\ results["video_path"] = MkPath("raw", "v2")
  /\ pc = "done"

C23_FilterIdempotent ==
  pc = "refiltered" =>
    final_cuts = [i \in 1..Len(cuts_list) |->
                    [pos |-> i, viral_score |-> cuts_list[i].score]]

C23_Witness ==
  /\ pc = "refiltered"
  /\ Len(final_cuts) = 3
  /\ final_cuts[1].viral_score = final_cuts[2].viral_score
  /\ final_cuts[2].viral_score > final_cuts[3].viral_score
  /\ max_cuts_to_export = 3
  /\ min_viral_score = 80

\* C24 as stated: after download succeeded in a run whose identifier is the
\* one extracted from the URL, the video path recorded in the results, and
\* the path transcribe is then called with, is the file of that video,
\* whatever other .mp4 files the raw store holds.
C24_DownloadReturnsOwnVideo ==
  "download" \in stage_times /\ video_id = UrlVid =>
    /\ results["video_path"] = MkPath("raw", UrlVid)
    /\ "transcribe" \in DOMAIN adapter_args =>
         adapter_args["transcribe"] = <<MkPath("raw", UrlVid)>>

\* C25 as stated: in resume mode the skipped stages form a prefix of the
\* pipeline: once a stage has been executed in the run, no later stage is
\* skipped on account of a checkpoint.
C25_SkipsFormPrefix ==
  resume =>
    \A s \in Invoked : \A t \in Decided :
      OrderOf(s) < OrderOf(t) /\ decisions[t] => t \in skip_stages

\* C25, amended: in resume mode, when the loop reaches a stage that is not
\* forced to skip after an earlier stage was executed in the run, the stage
\* is skipped exactly when a file matches its own checkpoint pattern for the
\* identifier: the stages executed before have no part in the decision, so
\* the skipped stages need not form a prefix.
C25_SkipByOwnCheckpointOnly ==
  [][(/\ pc = "loop"
      /\ idx <= Len(STAGES)
      /\ resume
      /\ invoked /= <<>>
      /\ STAGES[idx] \notin skip_stages)
     => (decisions'[STAGES[idx]]
           <=> video_id /= NoId /\ GlobMatches(STAGES[idx], video_id))]_vars

C25_Witness ==
  /\ resume
  /\ "download" \in stage_times
  /\ "transcribe" \in Decided
  /\ decisions["transcribe"]
  /\ "transcribe" \notin skip_stages
  /\ "transcribe" \notin Invoked

\* C26 as stated: after a stage executed and completed in a run, a file
\* matches the checkpoint pattern of that stage for the identifier of the
\* run, so that a following run in resume mode skips the stage.
C26_CompletedStageHasCheckpoint ==
  video_id /= NoId => \A s \in stage_times : GlobMatches(s, video_id)

\* C27 as stated: each status of the final report is truthful: done only for
\* a stage whose adapter ran and succeeded in this run, skipped only for a
\* stage the loop skipped without calling its adapter, not-run only for a
\* stage whose adapter was never called; a stage that was called and failed
\* is shown neither as skipped nor as not-run.
C27_ReportIsTruthful ==
  pc = "done" /\ report /= EmptyDict =>
    \A s \in StageSet :
      /\ report[s] \in {"ok", "skip", "not-run"}
      /\ report[s] = "ok" => s \in Invoked /\ s \in stage_times
      /\ report[s] = "skip" => decisions[s] /\ s \notin Invoked
      /\ report[s] = "not-run" => s \notin Invoked

====
